---- MODULE Spec2Model ----
(***************************************************************************)
(* A model of InspireTree (src/src/tree.ts): the tree orchestrator that    *)
(* parses raw records into a node model, loads data from arrays, callback  *)
(* loaders and thenables, gates every event through the mute state,        *)
(* offers range helpers (boundingNodes, selectBetween), and runs the state *)
(* changes of the nodes and the bulk operations (invoke, addNodes, search) *)
(* inside render batches.                                                  *)
(*                                                                         *)
(* TreeNode and TreeNodes (./treenode, ./treenodes) are imported by        *)
(* tree.ts; the methods of theirs that tree.ts calls are modelled from     *)
(* the specification text and are marked "spec" in the comments.           *)
(***************************************************************************)
EXTENDS Integers, Sequences, FiniteSets, TLC

VARIABLES
    config,         \* tree.config: the normalised options read by the model
    initialized,    \* tree.initialized
    model,          \* tree.model: the root collection, a sequence of nodes
    muted,          \* tree._muted
    lastSelected,   \* tree._lastSelectedNode: id of the node, or "none"
    cuids,          \* number of ids cuid() has generated so far
    loads,          \* one record per call of tree.load, in call order
    timers,         \* the setTimeout queue: deferred emissions, oldest first
    call,           \* the last handler run: its name, arguments and result
    trace,          \* the steps the last handler performed, in order
    late,           \* callbacks loader functions have made after returning
    ranged,         \* calls of selectBetween made so far
    made,           \* calls of node methods, invoke, addNodes and search so far
    childLoads,     \* one record per call of loadChildren, in call order
    modelContext,   \* tree.model._context: id of the node, or "none"
    modelFrom       \* index in loads of the call whose completion set tree.model

vars == <<config, initialized, model, muted, lastSelected, cuids, loads,
          timers, call, trace, modelFrom, late, ranged, made, childLoads,
          modelContext>>

----------------------------------------------------------------------------
(* Bounds of the model.                                                    *)

\* Calls of tree.load after the constructor's own call.
MaxLoads == 1

\* Longest list of event names handed to mute or unmute.
MaxMuteLen == 2

\* Callbacks the loader functions make, in all, after they have returned.
MaxCallbacks == 1

\* Calls of selectBetween.
MaxRangeCalls == 1

\* Calls of node methods, invoke, addNodes and search.
MaxCalls == 2

\* Calls of loadChildren.
MaxChildLoads == 2

\* Most nodes handed to one call of boundingNodes.
MaxArgs == 3

\* Root records of the wide data set.
Wide == 12

----------------------------------------------------------------------------
(* Sequence helpers.                                                       *)

Range(s) == {s[i] : i \in 1..Len(s)}

SeqsUpTo(S, n) == UNION {[1..k -> S] : k \in 0..n}

\* _.difference(array, values): the elements of array not in values, in order.
RECURSIVE Difference(_, _)
Difference(array, values) ==
    IF array = <<>> THEN <<>>
    ELSE IF Head(array) \in Range(values)
         THEN Difference(Tail(array), values)
         ELSE <<Head(array)>> \o Difference(Tail(array), values)

----------------------------------------------------------------------------
(* Raw records and the node model.                                         *)

\* tree.defaultState
defaultState ==
    [collapsed |-> TRUE, focused |-> FALSE, hidden |-> FALSE,
     indeterminate |-> FALSE, loading |-> FALSE, removed |-> FALSE,
     selectable |-> TRUE, selected |-> FALSE]

StateFlags == DOMAIN defaultState

\* The partial itree.state a caller supplies: the flags given as true and the
\* flags given as false; every other flag is absent.
Given(on, off) == [on |-> on, off |-> off]

NoState == Given({}, {})

\* A raw record { id, itree: { state }, children } with a number as id. The
\* id field holds <<id>>; <<>> stands for a record without id.
Rec(id, state, children) ==
    [kind |-> "object", id |-> <<id>>, state |-> state, children |-> children]

\* A raw record without id.
RecNoId(state, children) ==
    [kind |-> "object", id |-> <<>>, state |-> state, children |-> children]

\* A null entry in the array of raw records.
NullRec == [kind |-> "null", id |-> <<>>, state |-> NoState, children |-> <<>>]

\* Whether `object.id || cuid()` takes the generated id: the id is missing or
\* falsy, as the number 0 is.
Falsy(id) == id = <<>> \/ id = <<0>>

\* cuid(): the n-th generated id; distinct from every caller-supplied id.
cuid(n) == "c" \o ToString(n)

\* The parse of a collection: the nodes built, the ids generated, the
\* node.<name> load events emitted, whether the parse threw, and the parent
\* argument of collectionToModel, the id of a node or "none".
ParseUnder(parent, n) ==
    [nodes |-> <<>>, cuids |-> n, events |-> <<>>, threw |-> FALSE,
     parent |-> parent]

\* The parse of a root collection, which is given no parent.
ParseStart(n) == ParseUnder("none", n)

\* The pre-set-state events objectToModel emits for one node.
RECURSIVE LoadEvents(_, _, _)
LoadEvents(names, state, id) ==
    IF names = <<>> THEN <<>>
    ELSE (IF state[Head(names)]
          THEN <<[name |-> "node." \o Head(names), node |-> id]>>
          ELSE <<>>)
         \o LoadEvents(Tail(names), state, id)

\* objectToModel's state defaults: collapsed and selectable are kept when the
\* caller gave a boolean, the other flags are "given || default".
ModelState(given) ==
    [f \in StateFlags |->
        IF f \in {"collapsed", "selectable"}
        THEN (IF f \in given.on THEN TRUE
              ELSE IF f \in given.off THEN FALSE
              ELSE defaultState[f])
        ELSE (f \in given.on \/ defaultState[f])]

RECURSIVE collectionToModel(_, _, _)
RECURSIVE objectToModel(_, _, _)

objectToModel_Orphans(object, allowLoadEvents, acc) ==
    IF object.kind = "null" THEN [acc EXCEPT !.threw = TRUE]
    ELSE
      LET fresh == Falsy(object.id)
          id    == IF fresh THEN cuid(acc.cuids + 1)
                   ELSE ToString(object.id[1])
          kids  == collectionToModel(object.children, allowLoadEvents,
                       [acc EXCEPT !.nodes = <<>>,
                                   !.cuids = IF fresh THEN @ + 1 ELSE @])
          node  == [id |-> id, state |-> ModelState(object.state),
                    children |-> kids.nodes, parent |-> "none",
                    context |-> "none"]
      IN IF kids.threw THEN [kids EXCEPT !.nodes = acc.nodes]
         ELSE [kids EXCEPT !.nodes = Append(acc.nodes, node)]

\* tree.objectToModel(object, parent), continuing the parse acc. Reading
\* object.id of a null entry throws a TypeError. The node keeps the parent
\* it was given in itree.parent; its children are parsed with the node as
\* parent, which their collection keeps as its _context; a node without
\* children gets no collection.
objectToModel(object, allowLoadEvents, acc) ==
    IF object.kind = "null" THEN [acc EXCEPT !.threw = TRUE]
    ELSE
      LET fresh    == Falsy(object.id)
          id       == IF fresh THEN cuid(acc.cuids + 1)
                      ELSE ToString(object.id[1])
          state    == ModelState(object.state)
          kids     == collectionToModel(object.children, allowLoadEvents,
                          [acc EXCEPT !.nodes = <<>>,
                                      !.cuids = IF fresh THEN @ + 1 ELSE @,
                                      !.parent = id])
          node     == [id |-> id, state |-> state, children |-> kids.nodes,
                       parent |-> acc.parent,
                       context |-> IF Len(object.children) > 0
                                   THEN kids.parent ELSE "none"]
      IN IF kids.threw
         THEN [kids EXCEPT !.nodes = acc.nodes, !.parent = acc.parent]
         ELSE [nodes  |-> Append(acc.nodes, node),
               cuids  |-> kids.cuids,
               events |-> kids.events \o LoadEvents(allowLoadEvents, state, id),
               threw  |-> FALSE,
               parent |-> acc.parent]

collectionToModel_SkipsRecords(array, allowLoadEvents, acc) ==
    IF array = <<>> \/ acc.threw THEN acc
    ELSE collectionToModel(Tail(array), allowLoadEvents, acc)

\* tree.collectionToModel(array, parent), continuing the parse acc: the
\* records are parsed in order (config.sort is false) until one throws.
collectionToModel(array, allowLoadEvents, acc) ==
    IF array = <<>> \/ acc.threw THEN acc
    ELSE collectionToModel(Tail(array), allowLoadEvents,
                           objectToModel(Head(array), allowLoadEvents, acc))

----------------------------------------------------------------------------
(* Node collections (spec: ./treenode, ./treenodes).                       *)

\* A path addresses a node: its 1-based position in the root collection, then
\* in its parent's children, and so on.
RECURSIVE Paths(_)
Paths(nodes) ==
    UNION {{<<i>>} \cup {<<i>> \o p : p \in Paths(nodes[i].children)}
           : i \in 1..Len(nodes)}

RECURSIVE NodeAt(_, _)
NodeAt(nodes, path) ==
    IF Len(path) = 1 THEN nodes[path[1]]
    ELSE NodeAt(nodes[path[1]].children, Tail(path))

\* The collection with flag prop of the node at path set to value.
RECURSIVE SetState(_, _, _, _)
SetState(nodes, path, prop, value) ==
    IF Len(path) = 1
    THEN [nodes EXCEPT ![path[1]].state[prop] = value]
    ELSE [nodes EXCEPT ![path[1]].children =
                            SetState(@, Tail(path), prop, value)]

\* The collection with every flag of the node at path set as in flags.
RECURSIVE SetFlags(_, _, _)
SetFlags(nodes, path, flags) ==
    IF Len(path) = 1
    THEN [nodes EXCEPT ![path[1]].state = flags]
    ELSE [nodes EXCEPT ![path[1]].children = SetFlags(@, Tail(path), flags)]

\* The collection with flag prop of every node, at every depth, set to value.
RECURSIVE SetStateDeep(_, _, _)
SetStateDeep(nodes, prop, value) ==
    [i \in 1..Len(nodes) |->
        [nodes[i] EXCEPT !.state[prop] = value,
                         !.children = SetStateDeep(@, prop, value)]]

\* Document order: a node before its children, children before later siblings.
RECURSIVE Before(_, _)
Before(p, q) ==
    /\ p # q
    /\ \/ p = <<>>
       \/ /\ q # <<>>
          /\ \/ p[1] < q[1]
             \/ p[1] = q[1] /\ Before(Tail(p), Tail(q))

\* TreeNodes.selected(): the selected nodes at every depth.
Selected(nodes) == {p \in Paths(nodes) : NodeAt(nodes, p).state.selected}


\* The paths of a collection in document order.
RECURSIVE InOrder(_)
InOrder(paths) ==
    IF paths = {} THEN <<>>
    ELSE LET first == CHOOSE p \in paths : \A q \in paths \ {p} : Before(p, q)
         IN <<first>> \o InOrder(paths \ {first})

\* TreeNode.hasChildren()
hasChildren(node) == Len(node.children) > 0

----------------------------------------------------------------------------
(* The handler state: the part of the tree a handler reads and writes,     *)
(* threaded through the steps of one handler.                              *)

Step(op, name) == [op |-> op, name |-> name, delivered |-> FALSE]

Did(S, op, name) == [S EXCEPT !.trace = Append(@, Step(op, name))]

\* tree.muted(), read by the emit override as a truth value: false when
\* nothing is muted, true when everything is, and an array of names otherwise.
NotMuted == [kind |-> "false", names |-> <<>>]
AllMuted == [kind |-> "true", names |-> <<>>]
MutedNames(names) == [kind |-> "array", names |-> names]

\* What `!tree.muted()` evaluates to: an array, like true, is truthy.
Truthy(m) == m.kind # "false"

\* tree.emit(name, ...): the override hands the event to the emitter only
\* when tree.muted() is falsy.
Emit(S, name) ==
    [S EXCEPT !.trace = Append(@, [op |-> "emit", name |-> name,
                                   delivered |-> ~Truthy(muted)])]

\* setTimeout(function() { tree.emit(name, ...) })
SetTimeout(S, name) ==
    Did([S EXCEPT !.timers = Append(@, name)], "defer", name)

RECURSIVE EmitAll(_, _)
EmitAll(S, events) ==
    IF events = <<>> THEN S
    ELSE EmitAll(Emit(S, Head(events).name), Tail(events))

\* The state flags of the methods of a node that are a plain state change
\* (spec): the flag, the value it gets and the verb of the event.
Method(name) ==
    CASE name = "collapse"   -> [prop |-> "collapsed", value |-> TRUE,  verb |-> "collapsed"]
      [] name = "expand"     -> [prop |-> "collapsed", value |-> FALSE, verb |-> "expanded"]
      [] name = "hide"       -> [prop |-> "hidden",    value |-> TRUE,  verb |-> "hidden"]
      [] name = "show"       -> [prop |-> "hidden",    value |-> FALSE, verb |-> "shown"]
      [] name = "softRemove" -> [prop |-> "removed",   value |-> TRUE,  verb |-> "removed"]
      [] name = "restore"    -> [prop |-> "removed",   value |-> FALSE, verb |-> "restored"]
      [] name = "deselect"   -> [prop |-> "selected",  value |-> FALSE, verb |-> "deselected"]

Methods == {"collapse", "expand", "hide", "show", "softRemove", "restore", "deselect"}

\* The paths of the nodes below the node at path, in document order.
Below(nodes, path) ==
    InOrder({q \in Paths(nodes) :
                Len(q) > Len(path) /\ SubSeq(q, 1, Len(path)) = path})

\* tree.resetState(node): every flag of the node is set to its default.
resetState_Nothing(S, path) == S

resetState(S, path) == [S EXCEPT !.model = SetFlags(@, path, defaultState)]

RECURSIVE baseStateChange(_, _, _, _, _, _)
RECURSIVE baseInvoke(_, _, _)

\* The loop of baseInvoke: each of the methods is called on each of the
\* nodes. A method called from here is a plain state change of its node.
RECURSIVE InvokeEach(_, _, _)
InvokeEach(S, paths, methods) ==
    IF paths = <<>> THEN S
    ELSE IF methods = <<>> THEN S
    ELSE LET m    == Method(Head(methods))
             once == baseStateChange(S, m.prop, m.value, m.verb, Head(paths), "")
         IN IF Len(methods) > 1
            THEN InvokeEach(InvokeEach(once, <<Head(paths)>>, Tail(methods)),
                            Tail(paths), methods)
            ELSE InvokeEach(once, Tail(paths), methods)

baseInvoke_NoBatch(S, paths, methods) == InvokeEach(S, paths, methods)

\* tree.baseInvoke(nodes, methods, deep), nodes given by their paths in the
\* order in which `each` or `recurseDown` visits them.
baseInvoke(S, paths, methods) ==
    Did(InvokeEach(Did(S, "batch", ""), paths, methods), "end", "")

\* tree.baseStateChange(prop, value, verb, node, deep): the shared state
\* change of the node methods; deep is "" when the method gives none. The
\* steps "resetState", "state" and "markDirty" carry the id of the node.
baseStateChange_Always(S, prop, value, verb, path, deep) ==
    Did(Did(Emit([S EXCEPT !.model = SetState(@, path, prop, value)],
                 "node." \o verb),
            "markDirty", ""),
        "applyChanges", "")

baseStateChange_EmitsFirst(S, prop, value, verb, path, deep) ==
    IF NodeAt(S.model, path).state[prop] = value THEN S
    ELSE LET id    == NodeAt(S.model, path).id
             said  == Emit(S, "node." \o verb)
             set   == Did([said EXCEPT !.model = SetState(@, path, prop, value)],
                          "state", id)
         IN Did(Did(set, "markDirty", id), "applyChanges", "")

baseStateChange(S, prop, value, verb, path, deep) ==
    IF NodeAt(S.model, path).state[prop] = value THEN S
    ELSE LET id    == NodeAt(S.model, path).id
             reset == IF config.resetStateOnRestore /\ verb = "restored"
                      THEN Did(resetState(S, path), "resetState", id) ELSE S
             set   == Did([reset EXCEPT !.model =
                                SetState(@, path, prop, value)], "state", id)
             said  == Emit(set, "node." \o verb)
             below == IF deep # "" /\ hasChildren(NodeAt(said.model, path))
                      THEN baseInvoke(said, Below(said.model, path), <<deep>>)
                      ELSE said
         IN Did(Did(below, "markDirty", id), "applyChanges", "")

RECURSIVE DeselectAll(_, _)
DeselectAll(S, paths) ==
    IF paths = <<>> THEN S
    ELSE DeselectAll(
            baseStateChange(S, "selected", FALSE, "deselected", Head(paths), ""),
            Tail(paths))

\* TreeNode.select() (spec): nothing for a node that is not selectable; in
\* exclusive mode every other selected node is deselected first; the node
\* becomes the last selected node.
NodeSelect(S, path) ==
    LET node   == NodeAt(S.model, path)
        called == Did(S, "select", node.id)
    IN IF ~node.state.selectable \/ node.state.selected THEN called
       ELSE LET others == InOrder(Selected(S.model) \ {path})
                clear  == IF config.multiple THEN called
                          ELSE DeselectAll(called, others)
                done   == baseStateChange(clear, "selected", TRUE,
                                          "selected", path, "")
            IN [done EXCEPT !.lastSelected = node.id]

\* tree.removeAll()
removeAll(S) ==
    Did(Did([S EXCEPT !.model = <<>>, !.modelFrom = 0,
                      !.modelContext = "none"], "removeAll", ""),
        "applyChanges", "")

\* tree.selectFirstAvailableNode(): select the first root node that is not
\* removed, if there is one.
selectFirstAvailableNode(S) ==
    LET available == {i \in 1..Len(S.model) : ~S.model[i].state.removed}
    IN IF available = {} THEN S
       ELSE LET first == CHOOSE i \in available : \A j \in available : i <= j
            IN NodeSelect(Did(S, "selectFirst", ""), <<first>>)

\* resolve and reject of the promise load returns: a settled promise stays
\* as it is.
Resolve(S) ==
    Did([S EXCEPT !.promise = IF @ = "pending" THEN "resolved" ELSE @],
        "resolve", S.promise)

Reject(S) ==
    Did([S EXCEPT !.promise = IF @ = "pending" THEN "rejected" ELSE @],
        "reject", S.promise)

\* Whether complete delays its two events: the tree is still being
\* constructed and the value is an array.
Deferred(nodes) == ~initialized /\ nodes.isArray

\* complete's first step: emit data.loaded, or set a timer that will.
AnnounceData_Sync(S, nodes) == Emit(S, "data.loaded")

AnnounceData(S, nodes) ==
    IF Deferred(nodes) THEN SetTimeout(S, "data.loaded")
    ELSE Emit(S, "data.loaded")

\* complete's step after the model is in place: emit model.loaded, or set a
\* timer that will.
AnnounceModel_Dropped(S, nodes) == S

AnnounceModel(S, nodes) ==
    IF Deferred(nodes) THEN SetTimeout(S, "model.loaded")
    ELSE Emit(S, "model.loaded")

\* The complete callback of load number i, called with the value nodes.
complete(S, i, nodes) ==
    LET begun    == Did(S, "complete", IF nodes.isArray THEN "array" ELSE "other")
        dataEv   == AnnounceData(begun, nodes)
        cleared  == IF Len(dataEv.model) > 0 THEN removeAll(dataEv) ELSE dataEv
        parsed   == collectionToModel(nodes.records, config.allowLoadEvents,
                                      ParseStart(cleared.cuids))
        emitted  == EmitAll([cleared EXCEPT !.cuids = parsed.cuids],
                            parsed.events)
        replaced == Did([emitted EXCEPT !.model = parsed.nodes,
                                        !.modelFrom = i,
                                        !.modelContext = parsed.parent],
                        "setModel", "")
        selected == IF config.require /\ Selected(replaced.model) = {}
                    THEN selectFirstAvailableNode(replaced)
                    ELSE replaced
        modelEv  == AnnounceModel(selected, nodes)
    IN IF parsed.threw
       THEN [Did(emitted, "throw", "") EXCEPT !.threw = TRUE]
       ELSE Did(Resolve(modelEv), "applyChanges", "")

\* The error callback of a load.
error(S) == Reject(Emit(S, "data.loaderror"))

\* What a promise executor does with an exception: it rejects the promise.
Caught(S) == IF S.threw THEN [Reject(S) EXCEPT !.threw = FALSE] ELSE S

\* What `.then(complete).catch(error)` does with an exception of complete.
CaughtByError(S) == IF S.threw THEN error([S EXCEPT !.threw = FALSE]) ELSE S

----------------------------------------------------------------------------
(* Inputs: the values a load can complete with, and the loaders.           *)

\* The value handed to complete: an array of raw records, or an array-like
\* object that is not an array.
Value(isArray, records) == [isArray |-> isArray, records |-> records]

DataA ==
    Value(TRUE, <<Rec(1, NoState, <<Rec(2, NoState, <<>>)>>),
                  Rec(3, NoState, <<>>)>>)
DataB ==
    Value(TRUE, <<Rec(9, Given({"removed"}, {}), <<>>),
                  Rec(8, NoState, <<>>)>>)
DataNull ==
    Value(TRUE, <<Rec(5, Given({"selected"}, {}), <<>>), NullRec>>)
DataLike == Value(FALSE, <<Rec(4, NoState, <<>>)>>)

\* The values an array loader is.
Values == {DataA, DataB, DataNull, DataLike}

\* The values a thenable resolves with or a loader calls back with.
AsyncValues == {DataA, DataNull}

\* A loader: an array(-like) value; a function called with the complete and
\* error callbacks, which may call one of them or throw before it returns and
\* may return a thenable; a thenable, with a catch method, a jQuery-style
\* error method, or neither; or a value that is none of these (a number).
Loader(type, sync, data, flavour) ==
    [type |-> type, sync |-> sync, data |-> data, flavour |-> flavour]

Loaders ==
    {Loader("array", "none", d, "none") : d \in Values}
    \cup {Loader("function", "complete", d, "none") : d \in AsyncValues}
    \cup {Loader("function", s, DataA, "none") : s \in {"none", "error", "throw"}}
    \cup {Loader("function", s, DataA, "catch") : s \in {"none", "complete"}}
    \cup {Loader("thenable", "none", DataA, f) : f \in {"catch", "error", "then"}}
    \cup {Loader("invalid", "none", DataA, "none")}

\* The events a caller names in mute and unmute.
EventNames == {"data.loaded", "data.loaderror"}

NameLists == SeqsUpTo(EventNames, MaxMuteLen)

----------------------------------------------------------------------------
(* tree.load                                                               *)

\* The handler state at the start of a handler working for load number i.
Start(promise) ==
    [model |-> model, lastSelected |-> lastSelected, cuids |-> cuids,
     timers |-> timers, trace |-> <<>>, modelFrom |-> modelFrom,
     modelContext |-> modelContext, promise |-> promise, threw |-> FALSE]

\* The loader function's own run: loader(null, complete, error).
RunLoader(S, i, loader) ==
    CASE loader.sync = "complete" -> complete(S, i, loader.data)
      [] loader.sync = "error"    -> error(S)
      [] loader.sync = "throw"    -> [Did(S, "throw", "") EXCEPT !.threw = TRUE]
      [] OTHER                    -> S

\* The executor of the promise tree.load(loader) returns, as call number i.
\* An exception in it rejects the promise.
load(S, i, loader) ==
    CASE loader.type = "array"    -> Caught(complete(S, i, loader.data))
      [] loader.type = "function" -> Caught(RunLoader(S, i, loader))
      [] loader.type = "thenable" -> S
      [] OTHER -> Caught([Did(S, "throw", "") EXCEPT !.threw = TRUE])

\* Whether load left `standardizePromise(loader).then(complete).catch(error)`
\* waiting on a thenable: the loader is one, or the function returned one and
\* did not throw.
Waits(S, i, loader) ==
    \/ loader.type = "thenable"
    \/ /\ loader.type = "function"
       /\ loader.flavour # "none"
       /\ ~RunLoader(S, i, loader).threw

\* The record of call number i of tree.load after the executor has run: the
\* thenable the call waits on ("catch", "error" or "then" by the methods it
\* has, "none" when there is none or it has settled), the state of the
\* returned promise, whether the loader is a function (which holds on to the
\* callbacks), and the earlier calls still pending when this one was made.
LoadRecord(S, i, loader) ==
    [source    |-> IF Waits(S, i, loader)
                   THEN (IF loader.type = "thenable" THEN loader.flavour
                         ELSE "catch")
                   ELSE "none",
     promise   |-> load(S, i, loader).promise,
     callbacks |-> loader.type = "function",
     overlaps  |-> {j \in 1..Len(loads) : loads[j].promise = "pending"}]

\* The handler state written back to the tree.
Finish(S) ==
    /\ model' = S.model
    /\ lastSelected' = S.lastSelected
    /\ cuids' = S.cuids
    /\ timers' = S.timers
    /\ trace' = S.trace
    /\ modelFrom' = S.modelFrom
    /\ modelContext' = S.modelContext

\* The end of the constructor: tree.load(tree.config.data), then
\* tree.initialized = true.
ConstructAs(loader, called) ==
    /\ ~initialized
    /\ LET S == Start("pending")
       IN /\ Finish(load(S, 1, loader))
          /\ loads' = <<LoadRecord(S, 1, loader)>>
    /\ initialized' = TRUE
    /\ call' = called
    /\ UNCHANGED <<childLoads, made, ranged, late, config, muted>>

Construct(loader) == ConstructAs(loader, [op |-> "new"])

\* tree.load(loader), called on the constructed tree.
LoadAs(loader, called) ==
    /\ initialized
    /\ Len(loads) < 1 + MaxLoads
    /\ LET i == Len(loads) + 1
           S == Start("pending")
       IN /\ Finish(load(S, i, loader))
          /\ loads' = Append(loads, LoadRecord(S, i, loader))
    /\ call' = called
    /\ UNCHANGED <<childLoads, made, ranged, late, config, initialized, muted>>

Load(loader) == LoadAs(loader, [op |-> "load"])

\* new InspireTree({ data: array }) and tree.load(array), with the array kept
\* as the argument of the call.
ConstructOn(data) ==
    ConstructAs(Loader("array", "none", data, "none"),
                [op |-> "new", data |-> data.records])

LoadArray(data) ==
    LoadAs(Loader("array", "none", data, "none"),
           [op |-> "load", data |-> data.records])

\* The thenable of load i resolves with value: complete(value) runs, and an
\* exception of it goes to error.
ThenableResolves(i, value) ==
    /\ loads[i].source # "none"
    /\ LET S == CaughtByError(complete(Start(loads[i].promise), i, value))
       IN /\ Finish(S)
          /\ loads' = [loads EXCEPT ![i].source = "none",
                                    ![i].promise = S.promise]
    /\ call' = [op |-> "thenable.resolve", load |-> i]
    /\ UNCHANGED <<childLoads, made, ranged, late, config, initialized, muted>>

\* The thenable of load i rejects, and has a catch or error method through
\* which standardizePromise hears of it: error(err) runs.
ThenableRejects(i) ==
    /\ loads[i].source \in {"catch", "error"}
    /\ LET S == error(Start(loads[i].promise))
       IN /\ Finish(S)
          /\ loads' = [loads EXCEPT ![i].source = "none",
                                    ![i].promise = S.promise]
    /\ call' = [op |-> "thenable.reject", load |-> i]
    /\ UNCHANGED <<childLoads, made, ranged, late, config, initialized, muted>>

\* The thenable of load i rejects and has only a then method: nothing in the
\* tree hears of it.
ThenableRejectsUnheard(i) ==
    /\ loads[i].source = "then"
    /\ loads' = [loads EXCEPT ![i].source = "none"]
    /\ call' = [op |-> "thenable.reject", load |-> i]
    /\ trace' = <<>>
    /\ UNCHANGED <<childLoads, modelContext, made, ranged, late, config, initialized, model, muted, lastSelected, cuids,
                   timers, modelFrom>>

\* The loader function of load i calls complete(value) after it has returned.
\* An exception of complete goes back to the loader, not to the tree.
CallbackCompletes(i, value) ==
    /\ loads[i].callbacks
    /\ late < MaxCallbacks
    /\ late' = late + 1
    /\ LET S == complete(Start(loads[i].promise), i, value)
       IN /\ Finish(S)
          /\ loads' = [loads EXCEPT ![i].promise = S.promise]
    /\ call' = [op |-> "callback.complete", load |-> i]
    /\ UNCHANGED <<childLoads, made, ranged, config, initialized, muted>>

\* The loader function of load i calls error(err) after it has returned.
CallbackFails(i) ==
    /\ loads[i].callbacks
    /\ late < MaxCallbacks
    /\ late' = late + 1
    /\ LET S == error(Start(loads[i].promise))
       IN /\ Finish(S)
          /\ loads' = [loads EXCEPT ![i].promise = S.promise]
    /\ call' = [op |-> "callback.error", load |-> i]
    /\ UNCHANGED <<childLoads, made, ranged, config, initialized, muted>>

\* The oldest setTimeout callback runs: tree.emit(name, ...).
TimerFires ==
    /\ timers # <<>>
    /\ LET S == Emit([Start("none") EXCEPT !.timers = Tail(timers)],
                     Head(timers))
       IN Finish(S)
    /\ call' = [op |-> "timer", name |-> Head(timers)]
    /\ UNCHANGED <<childLoads, made, ranged, late, config, initialized, muted, loads>>

----------------------------------------------------------------------------
(* tree.mute and tree.unmute                                               *)

\* tree.mute(events) with a string or an array of names; a string is cast to
\* a one-element array.
mute(events) == MutedNames(events)

\* tree.unmute(events) with a string or an array of names: _.difference of
\* the muted value and the names, false when nothing is left. _.difference
\* of a value that is not an array is the empty array.
unmute(m, events) ==
    LET left == IF m.kind = "array" THEN Difference(m.names, events) ELSE <<>>
    IN IF Len(left) = 0 THEN NotMuted ELSE MutedNames(left)

Mute(events) ==
    /\ initialized
    /\ muted' = mute(events)
    /\ call' = [op |-> "mute", events |-> events]
    /\ trace' = <<>>
    /\ UNCHANGED <<childLoads, modelContext, made, ranged, late, config, initialized, model, lastSelected, cuids, loads,
                   timers, modelFrom>>

\* tree.mute() without names.
MuteEverything ==
    /\ initialized
    /\ muted' = AllMuted
    /\ call' = [op |-> "mute.all"]
    /\ trace' = <<>>
    /\ UNCHANGED <<childLoads, modelContext, made, ranged, late, config, initialized, model, lastSelected, cuids, loads,
                   timers, modelFrom>>

Unmute(events) ==
    /\ initialized
    /\ muted' = unmute(muted, events)
    /\ call' = [op |-> "unmute", events |-> events]
    /\ trace' = <<>>
    /\ UNCHANGED <<childLoads, modelContext, made, ranged, late, config, initialized, model, lastSelected, cuids, loads,
                   timers, modelFrom>>

\* tree.unmute() without names.
UnmuteEverything ==
    /\ initialized
    /\ muted' = NotMuted
    /\ call' = [op |-> "unmute.all"]
    /\ trace' = <<>>
    /\ UNCHANGED <<childLoads, modelContext, made, ranged, late, config, initialized, model, lastSelected, cuids, loads,
                   timers, modelFrom>>

----------------------------------------------------------------------------
(* The tree from the end of its construction on.                           *)

Config(require, allowLoadEvents) ==
    [require |-> require, multiple |-> FALSE,
     allowLoadEvents |-> allowLoadEvents, resetStateOnRestore |-> TRUE]

Configs ==
    {Config(FALSE, <<>>), Config(TRUE, <<>>), Config(FALSE, <<"selected">>)}

\* The tree in its constructor, before the first load.
Start0(cfg) ==
    /\ config = cfg
    /\ initialized = FALSE
    /\ model = <<>>
    /\ muted = NotMuted
    /\ lastSelected = "none"
    /\ cuids = 0
    /\ loads = <<>>
    /\ timers = <<>>
    /\ call = [op |-> "none"]
    /\ trace = <<>>
    /\ modelFrom = 0
    /\ late = 0
    /\ ranged = 0
    /\ made = 0
    /\ childLoads = <<>>
    /\ modelContext = "none"

Init == \E cfg \in Configs : Start0(cfg)

Next ==
    \/ \E l \in Loaders : Construct(l)
    \/ \E l \in Loaders : Load(l)
    \/ \E i \in 1..Len(loads), v \in AsyncValues : ThenableResolves(i, v)
    \/ \E i \in 1..Len(loads) : ThenableRejects(i)
    \/ \E i \in 1..Len(loads) : ThenableRejectsUnheard(i)
    \/ \E i \in 1..Len(loads), v \in AsyncValues : CallbackCompletes(i, v)
    \/ \E i \in 1..Len(loads) : CallbackFails(i)
    \/ TimerFires

Spec == Init /\ [][Next]_vars

----------------------------------------------------------------------------
(* The constructed tree under mute and unmute: loads of a few loaders, so  *)
(* that every kind of emission meets every mute state.                     *)

MuteLoaders ==
    {Loader("array", "none", DataA, "none"),
     Loader("array", "none", DataNull, "none"),
     Loader("thenable", "none", DataA, "catch")}

InitMute == Start0(Config(TRUE, <<"selected">>))

NextMute ==
    \/ \E l \in MuteLoaders : Construct(l)
    \/ \E l \in MuteLoaders : Load(l)
    \/ \E i \in 1..Len(loads) : ThenableResolves(i, DataA)
    \/ \E i \in 1..Len(loads) : ThenableRejects(i)
    \/ TimerFires
    \/ \E e \in NameLists : Mute(e)
    \/ MuteEverything
    \/ \E e \in NameLists : Unmute(e)
    \/ UnmuteEverything

SpecMute == InitMute /\ [][NextMute]_vars

----------------------------------------------------------------------------
(* Range helpers: tree.boundingNodes and tree.selectBetween.               *)

\* Whether a node would be rendered (spec): it is neither hidden nor removed
\* and none of its ancestors is collapsed.
Visible(nodes, path) ==
    /\ ~NodeAt(nodes, path).state.hidden
    /\ ~NodeAt(nodes, path).state.removed
    /\ \A k \in 1..(Len(path) - 1) :
          ~NodeAt(nodes, SubSeq(path, 1, k)).state.collapsed

\* TreeNode.nextVisibleNode() (spec): the next visible node in document
\* order, as a one-element sequence, or <<>> when there is none.
nextVisibleNode(nodes, path) ==
    LET later == {q \in Paths(nodes) : Before(path, q) /\ Visible(nodes, q)}
    IN IF later = {} THEN <<>>
       ELSE <<CHOOSE q \in later : \A r \in later \ {q} : Before(q, r)>>

\* TreeNode.indexPath() (spec): the 0-based position of each ancestor, root
\* first, and of the node itself; the dots of the joined string are implied.
indexPath(path) == [k \in 1..Len(path) |-> path[k] - 1]

\* The decimal digits of a number, as a string of digits.
RECURSIVE Digits(_)
Digits(n) == IF n < 10 THEN <<n>> ELSE Digits(n \div 10) \o <<n % 10>>

\* indexPath().replace(/\./g, ''): the digits of the positions, run together.
RECURSIVE PathKey(_)
PathKey(ip) == IF ip = <<>> THEN <<>> ELSE Digits(Head(ip)) \o PathKey(Tail(ip))

\* The order of strings that _.sortBy uses: a < b by code units.
RECURSIVE StringLess(_, _)
StringLess(a, b) ==
    /\ b # <<>>
    /\ \/ a = <<>>
       \/ Head(a) < Head(b)
       \/ Head(a) = Head(b) /\ StringLess(Tail(a), Tail(b))

\* _.sortBy(keys)
RECURSIVE SortKeys(_)
SortKeys(keys) ==
    IF keys = {} THEN <<>>
    ELSE LET least == CHOOSE k \in keys : \A o \in keys \ {k} : StringLess(k, o)
         IN <<least>> \o SortKeys(keys \ {least})

\* The pathMap of boundingNodes: each key maps to the last argument with it.
PathMap(args) ==
    [key \in {PathKey(indexPath(args[k])) : k \in 1..Len(args)} |->
        LET at == {k \in 1..Len(args) : PathKey(indexPath(args[k])) = key}
        IN args[CHOOSE k \in at : \A j \in at : j <= k]]

\* _.get(pathMap, path) with an array of keys as path: the empty path gives
\* undefined (<<>>), one key gives the node under it, and a longer path reads
\* a property named by a key off a node, which has none.
GetIn(pathMap, keys) ==
    IF Len(keys) = 1 THEN <<pathMap[keys[1]]>> ELSE <<>>

\* tree.boundingNodes(...args): the pair it returns, each element a
\* one-element sequence holding a node, or <<>> for undefined.
boundingNodes(args) ==
    LET pathMap == PathMap(args)
        paths   == SortKeys(DOMAIN pathMap)
    IN << <<pathMap[Head(paths)]>>, GetIn(pathMap, Tail(paths)) >>

\* The loop of selectBetween: from node on, select each visible node until
\* the one with the id of the end node is met or there is no next one.
RECURSIVE SelectUntil(_, _, _)
SelectUntil(S, node, endId) ==
    IF node = <<>> THEN S
    ELSE IF NodeAt(S.model, node[1]).id = endId THEN S
    ELSE SelectUntil(NodeSelect(S, node[1]),
                     nextVisibleNode(S.model, node[1]), endId)

selectBetween_Inclusive(S, startNode, endNode) ==
    Did(NodeSelect(SelectUntil(Did(S, "batch", ""),
                               nextVisibleNode(S.model, startNode),
                               NodeAt(S.model, endNode).id),
                   endNode),
        "end", "")

\* tree.selectBetween(startNode, endNode)
selectBetween(S, startNode, endNode) ==
    Did(SelectUntil(Did(S, "batch", ""),
                    nextVisibleNode(S.model, startNode),
                    NodeAt(S.model, endNode).id),
        "end", "")

BoundingNodes(args) ==
    /\ initialized
    /\ call' = [op |-> "boundingNodes", args |-> args,
                result |-> boundingNodes(args)]
    /\ trace' = <<>>
    /\ UNCHANGED <<childLoads, modelContext, made, ranged, late, config, initialized, model, muted,
                   lastSelected, cuids, loads, timers, modelFrom>>

SelectBetween(startNode, endNode) ==
    /\ initialized
    /\ ranged < MaxRangeCalls
    /\ ranged' = ranged + 1
    /\ Finish(selectBetween(Start("none"), startNode, endNode))
    /\ call' = [op |-> "selectBetween", start |-> startNode, end |-> endNode,
                before |-> model]
    /\ UNCHANGED <<childLoads, made, late, config, initialized, muted, loads>>

\* The data of the range checks: Wide root records, the first expanded with
\* three children of which the second is hidden, the second collapsed with a
\* child, the third removed, the fourth not selectable, the sixth selected.
RangeData ==
    Value(TRUE,
        [k \in 1..Wide |->
            CASE k = 1 -> Rec(1, Given({}, {"collapsed"}),
                              <<Rec(101, NoState, <<>>),
                                Rec(102, Given({"hidden"}, {}), <<>>),
                                Rec(103, NoState, <<>>)>>)
              [] k = 2 -> Rec(2, NoState, <<Rec(201, NoState, <<>>)>>)
              [] k = 3 -> Rec(3, Given({"removed"}, {}), <<>>)
              [] k = 4 -> Rec(4, Given({}, {"selectable"}), <<>>)
              [] k = 6 -> Rec(6, Given({"selected"}, {}), <<>>)
              [] OTHER -> Rec(k, NoState, <<>>)])

RangeConfigs ==
    {[Config(FALSE, <<>>) EXCEPT !.multiple = m] : m \in BOOLEAN}

\* The tree in its constructor, about to load the range data.
InitRange == \E cfg \in RangeConfigs : Start0(cfg)

NextRange ==
    \/ Construct(Loader("array", "none", RangeData, "none"))
    \/ TimerFires
    \/ \E startNode, endNode \in Paths(model) : SelectBetween(startNode, endNode)

SpecRange == InitRange /\ [][NextRange]_vars

\* The nodes handed to boundingNodes: the first root, its last child, the
\* child of the second root, the third root and the last two roots.
BoundingArgs == {<<1>>, <<1, 3>>, <<2, 1>>, <<3>>, <<Wide - 1>>, <<Wide>>}

NextBounds ==
    \/ Construct(Loader("array", "none", RangeData, "none"))
    \/ TimerFires
    \/ \E args \in SeqsUpTo(BoundingArgs, MaxArgs) \ {<<>>} :
          Range(args) \subseteq Paths(model) /\ BoundingNodes(args)

SpecBounds == InitRange /\ [][NextBounds]_vars

----------------------------------------------------------------------------
(* Loading arrays of records: what the parse makes of ids and states.      *)

\* TreeNodes.node(id) (spec): the nodes of the tree, at any depth, whose id
\* is the string id.
node(nodes, id) == {p \in Paths(nodes) : NodeAt(nodes, p).id = id}

DataEmpty == Value(TRUE, <<>>)

\* A record with id 0 and a record without id.
DataZero == Value(TRUE, <<Rec(0, NoState, <<>>), RecNoId(NoState, <<>>)>>)

\* Records that repeat an id, at the same level and at different levels.
DataDup ==
    Value(TRUE, <<Rec(7, NoState, <<Rec(7, NoState, <<>>)>>),
                  Rec(7, NoState, <<>>)>>)

\* A removed root, then a root that is not selectable, then a plain root.
DataUnselectable ==
    Value(TRUE, <<Rec(4, Given({"removed"}, {}), <<>>),
                  Rec(5, Given({}, {"selectable"}), <<>>),
                  Rec(6, NoState, <<>>)>>)

\* A root whose child is given as selected.
DataPreselected ==
    Value(TRUE, <<Rec(1, NoState, <<Rec(2, Given({"selected"}, {}), <<>>)>>),
                  Rec(3, NoState, <<>>)>>)

\* A root with two children of which one is given as selected, and a root
\* without children that is given as indeterminate.
DataPartial ==
    Value(TRUE, <<Rec(1, NoState, <<Rec(2, Given({"selected"}, {}), <<>>),
                                    Rec(3, NoState, <<>>)>>),
                  Rec(4, Given({"indeterminate"}, {}), <<>>)>>)

DataValues ==
    {DataA, DataB, DataEmpty, DataZero, DataDup, DataUnselectable,
     DataPreselected, DataPartial}

InitData == \E cfg \in Configs : Start0(cfg)

NextData ==
    \/ \E data \in DataValues : ConstructOn(data)
    \/ \E data \in DataValues : LoadArray(data)
    \/ TimerFires

SpecData == InitData /\ [][NextData]_vars

----------------------------------------------------------------------------
(* Node methods, invoke, addNodes and search.                              *)

\* The display text of the records of the state data, by id, as a string of
\* characters.
Text(id) ==
    CASE id = "1" -> <<"a", " ", "b">>
      [] id = "2" -> <<"B">>
      [] id = "3" -> <<"a", "b">>
      [] id = "4" -> <<"a">>
      [] id = "5" -> <<"b">>
      [] OTHER    -> <<"c">>

\* The flag i of new RegExp(query, 'i'): letters compare by their lower case.
Lower(c) == IF c = "B" THEN "b" ELSE IF c = "A" THEN "a" ELSE c

LowerAll(str) == [k \in 1..Len(str) |-> Lower(str[k])]

\* new RegExp(pattern, 'i').test(text) for a pattern of letters and spaces:
\* the text holds the pattern, whatever the case of the letters.
RegExpTest(pattern, text) ==
    \E k \in 0..(Len(text) - Len(pattern)) :
        LowerAll(SubSeq(text, k + 1, k + Len(pattern))) = LowerAll(pattern)

\* A query of search: nothing (undefined or null), a string, or a function
\* that holds of the nodes with the ids given.
NoQuery == [kind |-> "none", pattern |-> <<>>, ids |-> {}]
StringQuery(pattern) == [kind |-> "string", pattern |-> pattern, ids |-> {}]
FunctionQuery(ids) == [kind |-> "function", pattern |-> <<>>, ids |-> ids]

\* A function as query that throws when called with a node with one of the
\* ids given, and holds of no node.
ThrowingQuery(ids) == [kind |-> "throwing", pattern |-> <<>>, ids |-> ids]

\* Whether the predicate of the query throws on the node.
Throws(query, aNode) == query.kind = "throwing" /\ aNode.id \in query.ids

\* `!query || (_.isString(query) && _.isEmpty(query))`
EmptyQuery(query) ==
    \/ query.kind = "none"
    \/ query.kind = "string" /\ Len(query.pattern) = 0

\* The predicate search makes of a query that is not empty.
predicate(query, aNode) ==
    IF query.kind = "string" THEN RegExpTest(query.pattern, Text(aNode.id))
    ELSE query.kind = "function" /\ aNode.id \in query.ids

\* TreeNode.expandParents() (spec): every ancestor of the node, the nearest
\* first, is expanded and made visible; one that is neither collapsed nor
\* hidden is left alone.
expandParents_Nothing(S, path) == S

RECURSIVE expandParents(_, _)
expandParents(S, path) ==
    IF Len(path) <= 1 THEN S
    ELSE LET parent == SubSeq(path, 1, Len(path) - 1)
             state  == NodeAt(S.model, parent).state
             shown  == [S EXCEPT !.model =
                          SetState(SetState(@, parent, "collapsed", FALSE),
                                   parent, "hidden", FALSE)]
             done   == IF state.collapsed \/ state.hidden
                       THEN Did(Did(Emit(shown, "node.expanded"),
                                    "markDirty", ""), "applyChanges", "")
                       ELSE S
         IN expandParents(done, parent)

\* The iteratee of the walk of search, on the node at path: acc holds the
\* handler state S and the matches so far.
SearchVisit_AlsoRemoved(acc, path, query) ==
    LET match == predicate(query, NodeAt(acc.S.model, path))
        set   == [acc.S EXCEPT !.model = SetState(@, path, "hidden", ~match)]
    IN IF match
       THEN [S |-> expandParents(set, path), matches |-> Append(acc.matches, path)]
       ELSE [S |-> set, matches |-> acc.matches]

SearchVisit(acc, path, query) ==
    LET aNode     == NodeAt(acc.S.model, path)
        match     == predicate(query, aNode)
        wasHidden == aNode.state.hidden
        set       == [acc.S EXCEPT !.model = SetState(@, path, "hidden", ~match)]
        marked    == IF wasHidden # ~match THEN Did(set, "markDirty", "")
                     ELSE set
    IN IF aNode.state.removed THEN acc
       ELSE IF Throws(query, aNode)
       THEN [S |-> [Did(acc.S, "throw", "") EXCEPT !.threw = TRUE],
             matches |-> acc.matches]
       ELSE IF match
       THEN [S |-> expandParents(marked, path),
             matches |-> Append(acc.matches, path)]
       ELSE [S |-> marked, matches |-> acc.matches]

\* tree.model.recurseDown(iteratee) (spec): the nodes are visited in
\* document order, whatever their state, until the iteratee throws.
RECURSIVE SearchWalk(_, _, _)
SearchWalk(acc, paths, query) ==
    IF paths = <<>> \/ acc.S.threw THEN acc
    ELSE SearchWalk(SearchVisit(acc, Head(paths), query), Tail(paths), query)

\* tree.clearSearch(): this.showDeep().collapseDeep()
clearSearch(S) ==
    LET all == InOrder(Paths(S.model))
    IN baseInvoke(baseInvoke(S, all, <<"show">>), all, <<"collapse">>)

\* tree.search(query) without a custom search function: the handler state
\* and the matches returned. An exception of the predicate leaves search
\* where it is thrown.
search(S, query) ==
    IF EmptyQuery(query) THEN [S |-> clearSearch(S), matches |-> <<>>]
    ELSE LET walked == SearchWalk([S |-> Did(S, "batch", ""), matches |-> <<>>],
                                  InOrder(Paths(S.model)), query)
         IN IF walked.S.threw THEN [S |-> walked.S, matches |-> <<>>]
            ELSE [S |-> Did(walked.S, "end", ""), matches |-> walked.matches]

\* TreeNodes.addNode(object) (spec): the record is parsed and the node put
\* at the end of the root collection. The parse of a null entry throws.
addNode(S, object) ==
    LET parsed == objectToModel(object, config.allowLoadEvents,
                                [ParseStart(S.cuids) EXCEPT !.nodes = S.model])
        put    == EmitAll([S EXCEPT !.model = parsed.nodes,
                                    !.cuids = parsed.cuids], parsed.events)
    IN IF parsed.threw THEN [Did(put, "throw", "") EXCEPT !.threw = TRUE]
       ELSE Did(Did(put, "addNode", ""), "applyChanges", "")

RECURSIVE AddEach(_, _)
AddEach(S, records) ==
    IF records = <<>> \/ S.threw THEN S
    ELSE AddEach(addNode(S, Head(records)), Tail(records))

\* tree.addNodes(nodes): an exception of addNode leaves addNodes where it
\* is thrown.
addNodes(S, records) ==
    LET added == AddEach(Did(S, "batch", ""), records)
    IN IF added.threw THEN added ELSE Did(added, "end", "")

\* One more call on the constructed tree.
Calling ==
    /\ initialized
    /\ made < MaxCalls
    /\ made' = made + 1
    /\ UNCHANGED <<childLoads, ranged, late, config, initialized, muted, loads>>

\* A method of the node at path that is a plain state change; deep tells
\* whether the method hands its own name to baseStateChange as deep.
NodeCall(name, path, deep) ==
    /\ Calling
    /\ Finish(baseStateChange(Start("none"), Method(name).prop,
                              Method(name).value, Method(name).verb, path,
                              IF deep THEN name ELSE ""))
    /\ call' = [op |-> "node", method |-> name, path |-> path, deep |-> deep]

\* tree.invoke(methods) and tree.invokeDeep(methods): baseInvoke on the root
\* nodes, or on every node.
Invoke(methods, deep) ==
    /\ Calling
    /\ Finish(baseInvoke(Start("none"),
                         IF deep THEN InOrder(Paths(model))
                         ELSE [k \in 1..Len(model) |-> <<k>>],
                         methods))
    /\ call' = [op |-> "invoke", methods |-> methods, deep |-> deep]

AddNodes(records) ==
    /\ Calling
    /\ Finish(addNodes(Start("none"), records))
    /\ call' = [op |-> "addNodes", records |-> records]

Search(query) ==
    /\ Calling
    /\ Finish(search(Start("none"), query).S)
    /\ call' = [op |-> "search", query |-> query,
                result |-> search(Start("none"), query).matches]

ClearSearch ==
    /\ Calling
    /\ Finish(clearSearch(Start("none")))
    /\ call' = [op |-> "clearSearch"]

\* tree.selectBetween(startNode, endNode), as one of the calls counted here.
SelectRange(startNode, endNode) ==
    /\ Calling
    /\ Finish(selectBetween(Start("none"), startNode, endNode))
    /\ call' = [op |-> "selectBetween", start |-> startNode, end |-> endNode]

\* The data of the state checks: root 1 with the children 2, which has the
\* child 3, and 6; root 4, given as removed with other flags set, with the
\* child 5.
StateData ==
    Value(TRUE,
        <<Rec(1, NoState,
              <<Rec(2, NoState, <<Rec(3, NoState, <<>>)>>),
                Rec(6, Given({"hidden"}, {}), <<>>)>>),
          Rec(4, Given({"removed", "selected", "hidden", "focused"},
                       {"collapsed", "selectable"}),
              <<Rec(5, NoState, <<>>)>>)>>)

Queries ==
    {NoQuery, StringQuery(<<>>), StringQuery(<<" ">>), StringQuery(<<"b">>),
     StringQuery(<<"a", "B">>), FunctionQuery({"5"})}

MethodLists == {<<"hide">>, <<"restore">>, <<"show", "expand">>}

NewRecords == {<<Rec(7, NoState, <<>>), Rec(8, NoState, <<Rec(9, NoState, <<>>)>>)>>}

InitState ==
    \E reset \in BOOLEAN :
        Start0([Config(FALSE, <<>>) EXCEPT !.resetStateOnRestore = reset])

NextState ==
    \/ ConstructOn(StateData)
    \/ TimerFires
    \/ \E name \in Methods, path \in Paths(model), deep \in BOOLEAN :
          NodeCall(name, path, deep)
    \/ \E methods \in MethodLists, deep \in BOOLEAN : Invoke(methods, deep)
    \/ \E records \in NewRecords : AddNodes(records)
    \/ \E query \in Queries : Search(query)
    \/ ClearSearch
    \/ \E startNode, endNode \in Paths(model) :
          SelectRange(startNode, endNode)

SpecState == InitState /\ [][NextState]_vars

----------------------------------------------------------------------------
(* The bulk operations with inputs that make them throw.                   *)

\* Queries of which one throws on the second node visited and one on a
\* removed node, which the walk does not hand to the predicate.
FaultQueries ==
    {StringQuery(<<"b">>), FunctionQuery({"3"}), ThrowingQuery({"2"}),
     ThrowingQuery({"4"})}

\* Lists of records of which one holds a null entry after a record.
FaultRecords ==
    {<<Rec(7, NoState, <<>>)>>, <<Rec(8, NoState, <<>>), NullRec>>}

NextFaults ==
    \/ ConstructOn(StateData)
    \/ TimerFires
    \/ \E query \in FaultQueries : Search(query)
    \/ \E records \in FaultRecords : AddNodes(records)
    \/ \E methods \in MethodLists, deep \in BOOLEAN : Invoke(methods, deep)
    \/ ClearSearch
    \/ \E startNode, endNode \in Paths(model) :
          SelectRange(startNode, endNode)

SpecFaults == InitState /\ [][NextFaults]_vars

----------------------------------------------------------------------------
(* Loading the children of a node (spec: TreeNode.loadChildren).           *)

\* The collection with the children of the node at path replaced by kids, a
\* collection whose context is the node with the id context.
RECURSIVE SetChildren(_, _, _, _)
SetChildren(nodes, path, kids, context) ==
    IF Len(path) = 1
    THEN [nodes EXCEPT ![path[1]].children = kids,
                       ![path[1]].context = context]
    ELSE [nodes EXCEPT ![path[1]].children =
                            SetChildren(@, Tail(path), kids, context)]

\* TreeNode.loadChildren() (spec), up to the call of the loader: the node is
\* loading.
loadChildren(S, path) ==
    Did([S EXCEPT !.model = SetState(@, path, "loading", TRUE)],
        "loadChildren", NodeAt(S.model, path).id)

\* The loader of the children of the node at path fails (spec):
\* children.loaderror is emitted, the node is no longer loading and has no
\* children.
childrenFailed(S, path) ==
    Emit([S EXCEPT !.model = SetState(@, path, "loading", FALSE)],
         "children.loaderror")

childrenLoaded_Everywhere(S, path, records) ==
    LET id     == NodeAt(S.model, path).id
        parsed == collectionToModel(records, config.allowLoadEvents,
                                    ParseUnder(id, S.cuids))
    IN Emit([S EXCEPT !.model = SetStateDeep(
                                    SetChildren(@, path, parsed.nodes, id),
                                    "loading", FALSE),
                      !.cuids = parsed.cuids], "children.loaded")

\* The loader of the children of the node at path gives records (spec): they
\* are parsed by collectionToModel with the node as parent, the collection
\* becomes the children of the node, the node is no longer loading and
\* children.loaded is emitted. A parse that throws is a failure.
childrenLoaded(S, path, records) ==
    LET id     == NodeAt(S.model, path).id
        parsed == collectionToModel(records, config.allowLoadEvents,
                                    ParseUnder(id, S.cuids))
        parse  == EmitAll([S EXCEPT !.cuids = parsed.cuids], parsed.events)
        put    == [parse EXCEPT !.model =
                      SetState(SetChildren(@, path, parsed.nodes, parsed.parent),
                               path, "loading", FALSE)]
    IN IF parsed.threw THEN childrenFailed(parse, path)
       ELSE Did(Emit(put, "children.loaded"), "applyChanges", "")

\* The record of a call of loadChildren: the node, whether its loader is
\* pending, has given records or has failed, the records it gave, and its
\* place among the loaders that have finished.
ChildLoad(path) ==
    [path |-> path, status |-> "pending", data |-> <<>>, finished |-> 0]

Finished == Cardinality({k \in 1..Len(childLoads) : childLoads[k].finished > 0})

\* node.loadChildren() on a node that has no children and is not loading.
LoadChildren(path) ==
    /\ initialized
    /\ Len(childLoads) < MaxChildLoads
    /\ ~hasChildren(NodeAt(model, path))
    /\ ~NodeAt(model, path).state.loading
    /\ Finish(loadChildren(Start("none"), path))
    /\ childLoads' = Append(childLoads, ChildLoad(path))
    /\ call' = [op |-> "loadChildren", path |-> path]
    /\ UNCHANGED <<made, ranged, late, config, initialized, muted, loads>>

\* The loader of call k of loadChildren gives records.
ChildrenLoaded(k, records) ==
    /\ childLoads[k].status = "pending"
    /\ LET S == childrenLoaded(Start("none"), childLoads[k].path, records)
       IN /\ Finish(S)
          /\ childLoads' =
                [childLoads EXCEPT
                    ![k].status = IF S.trace[Len(S.trace)].op = "applyChanges"
                                  THEN "loaded" ELSE "failed",
                    ![k].data = records,
                    ![k].finished = Finished + 1]
    /\ call' = [op |-> "children.result", path |-> childLoads[k].path,
                data |-> records]
    /\ UNCHANGED <<made, ranged, late, config, initialized, muted, loads>>

\* The loader of call k of loadChildren fails.
ChildrenFailed(k) ==
    /\ childLoads[k].status = "pending"
    /\ Finish(childrenFailed(Start("none"), childLoads[k].path))
    /\ childLoads' = [childLoads EXCEPT ![k].status = "failed",
                                        ![k].finished = Finished + 1]
    /\ call' = [op |-> "children.error", path |-> childLoads[k].path]
    /\ UNCHANGED <<made, ranged, late, config, initialized, muted, loads>>

\* The data of the checks of loadChildren: two roots without children and a
\* root whose child has none.
ChildData ==
    Value(TRUE, <<Rec(1, NoState, <<>>), Rec(2, NoState, <<>>),
                  Rec(3, NoState, <<Rec(4, NoState, <<>>)>>)>>)

\* The records the loaders of children give.
ChildResults ==
    {<<Rec(11, NoState, <<>>),
       Rec(12, Given({"selected"}, {}), <<Rec(13, NoState, <<>>)>>)>>,
     <<Rec(21, NoState, <<>>)>>,
     <<RecNoId(NoState, <<>>)>>,
     <<Rec(31, NoState, <<>>), NullRec>>}

InitChildren ==
    \E cfg \in {Config(FALSE, <<>>), Config(FALSE, <<"selected">>)} : Start0(cfg)

NextChildren ==
    \/ ConstructOn(ChildData)
    \/ TimerFires
    \/ \E path \in Paths(model) : LoadChildren(path)
    \/ \E k \in 1..Len(childLoads), records \in ChildResults :
          ChildrenLoaded(k, records)
    \/ \E k \in 1..Len(childLoads) : ChildrenFailed(k)

SpecChildren == InitChildren /\ [][NextChildren]_vars

----------------------------------------------------------------------------
(* Reading the trace of the last handler.                                  *)

Has(op, name) ==
    \E k \in 1..Len(trace) : trace[k].op = op /\ trace[k].name = name

HasOp(op) == \E k \in 1..Len(trace) : trace[k].op = op

\* The position of the first step (op, name) of the trace, 0 when none.
Pos(op, name) ==
    IF Has(op, name)
    THEN CHOOSE k \in 1..Len(trace) :
            /\ trace[k].op = op /\ trace[k].name = name
            /\ \A j \in 1..(k - 1) : ~(trace[j].op = op /\ trace[j].name = name)
    ELSE 0

PosOp(op) ==
    IF HasOp(op)
    THEN CHOOSE k \in 1..Len(trace) :
            /\ trace[k].op = op
            /\ \A j \in 1..(k - 1) : trace[j].op # op
    ELSE 0

Count(op, name) ==
    Cardinality({k \in 1..Len(trace) : trace[k].op = op /\ trace[k].name = name})

\* The last handler ran complete to its end.
Completed == HasOp("setModel")

\* The last handler rejected the promise of its load.
Rejected == Has("reject", "pending")

----------------------------------------------------------------------------
(* C1: the order of the steps of a successful load.                        *)

\* The steps of a completed load in the trace, with its two events given as
\* steps of kind how ("emit" when emitted by the handler, "defer" when left
\* to a timer): data.loaded, then the new model, then the selection of the
\* first available node if there is one, then model.loaded, then resolve.
InOrderAs(how) ==
    LET d == Pos(how, "data.loaded")
        m == PosOp("setModel")
        f == PosOp("selectFirst")
        l == Pos(how, "model.loaded")
        r == PosOp("resolve")
    IN /\ 0 < d /\ d < m /\ m < l /\ l < r
       /\ f # 0 => (m < f /\ f < l /\ config.require)
       /\ Count(how, "data.loaded") = 1
       /\ Count(how, "model.loaded") = 1

\* C1 as stated: every successful load emits data.loaded, replaces the model,
\* selects the first available node if selection is required, emits
\* model.loaded and resolves, in this order, within its completion.
C1_FixedOrder == Completed => InOrderAs("emit")

\* C1, amended: a load that completes after construction, or with a value
\* that is not an array, takes these steps in this order within its
\* completion. A load that completes with an array during construction
\* emits neither event in its completion: it sets a timer for data.loaded
\* before it replaces the model and one for model.loaded before it resolves,
\* so both events follow the replaced model and the resolved promise,
\* data.loaded first.
C1_OrderOrDeferred ==
    Completed =>
        IF call.op = "new" /\ Has("complete", "array")
        THEN /\ InOrderAs("defer")
             /\ ~Has("emit", "data.loaded") /\ ~Has("emit", "model.loaded")
             /\ timers = <<"data.loaded", "model.loaded">>
        ELSE /\ InOrderAs("emit")
             /\ ~HasOp("defer")

\* A load after construction completed and selected the first available node.
C1_Witness ==
    /\ call.op \in {"load", "thenable.resolve"}
    /\ Completed
    /\ PosOp("selectFirst") # 0
    /\ Has("emit", "node.selected")

----------------------------------------------------------------------------
(* C2: a failed load emits data.loaderror and rejects.                     *)

\* C2 as stated: whenever the last handler failed a load (it threw, called
\* error, or rejected the promise) it both emitted data.loaderror and
\* rejected the promise of the load.
C2_FailureEmitsAndRejects ==
    (HasOp("throw") \/ Has("emit", "data.loaderror") \/ Rejected)
        => (Has("emit", "data.loaderror") /\ Rejected)

----------------------------------------------------------------------------
(* C3: a failed load leaves the model as it was.                           *)

\* C3 as stated: a step in which a load fails (its promise is rejected or
\* data.loaderror is emitted) leaves tree.model unchanged.
C3_FailedLoadKeepsModel ==
    [][(Rejected' \/ Has("emit", "data.loaderror")') => model' = model]_vars

----------------------------------------------------------------------------
(* C9: of two overlapping loads the later one wins.                        *)

\* C9 as stated: when load b was called while load a was pending and both
\* have resolved, the model is not the one a's completion built.
C9_LaterLoadWins ==
    \A b \in 1..Len(loads) : \A a \in loads[b].overlaps :
        (loads[a].promise = "resolved" /\ loads[b].promise = "resolved")
            => modelFrom # a

----------------------------------------------------------------------------
(* C10: the events of a load that completes during construction.           *)

\* C10: a completion with an array during construction emits neither
\* data.loaded nor model.loaded and, when it succeeds, leaves exactly the
\* timers for data.loaded and model.loaded, in this order; a timer emits its
\* event and nothing else; a completion after construction sets no timer and
\* emits both events itself.
C10_DeferredDuringConstruction ==
    /\ (call.op = "new" /\ Has("complete", "array")) =>
          /\ ~Has("emit", "data.loaded") /\ ~Has("emit", "model.loaded")
          /\ Completed => timers = <<"data.loaded", "model.loaded">>
    /\ call.op = "timer" =>
          /\ trace = <<[op |-> "emit", name |-> call.name, delivered |-> TRUE]>>
          /\ timers \in {<<>>, <<"model.loaded">>}
    /\ (call.op \notin {"none", "new", "timer"} /\ HasOp("complete")) =>
          /\ ~HasOp("defer")
          /\ Pos("emit", "data.loaded") = PosOp("complete") + 1
          /\ Completed => Has("emit", "model.loaded")

\* The constructor completed a load with an array and both timers are set.
C10_Witness ==
    /\ call.op = "new"
    /\ Completed
    /\ timers = <<"data.loaded", "model.loaded">>

----------------------------------------------------------------------------
(* C4: which events the mute state suppresses.                             *)

\* The events the mute state m is documented to suppress: none when false,
\* all when true, the named ones when a list of names.
Suppresses(m, name) ==
    \/ m.kind = "true"
    \/ m.kind = "array" /\ name \in Range(m.names)

\* C4 as stated: every event the last handler emitted was handed to the
\* listeners iff the mute state does not suppress its name.
C4_MutedByName ==
    \A k \in 1..Len(trace) :
        trace[k].op = "emit" =>
            (trace[k].delivered <=> ~Suppresses(muted, trace[k].name))

----------------------------------------------------------------------------
(* C5: unmute.                                                             *)

\* The names a mute state suppresses, tree.mute() suppressing every name.
SuppressedSet(m) ==
    CASE m.kind = "true"  -> EventNames
      [] m.kind = "array" -> Range(m.names)
      [] OTHER            -> {}

\* unmute(names) takes exactly the names given out of the set `before`,
\* and the mute state is false iff nothing is left.
TakesOut(before, events, after) ==
    /\ SuppressedSet(after) = before \ Range(events)
    /\ after.kind \in {"false", "array"}
    /\ after.kind = "false" <=> before \ Range(events) = {}

\* C5 as stated: unmute(names) removes exactly the given names from what is
\* suppressed, whatever the mute state, and sets muted to false when nothing
\* is left; unmute() sets muted to false; unmute(names) right after
\* mute(names) leaves the tree not muted.
C5_UnmuteRemovesNames ==
    [][/\ call'.op = "unmute" =>
            TakesOut(SuppressedSet(muted), call'.events, muted')
       /\ call'.op = "unmute.all" => muted' = NotMuted
       /\ (call.op = "mute" /\ call'.op = "unmute"
              /\ call'.events = call.events) => muted' = NotMuted]_vars

----------------------------------------------------------------------------
(* C6: selectBetween.                                                      *)

\* The ids of the visible nodes of the model nodes after path from and
\* before path to, in document order.
RECURSIVE IdsOf(_, _)
IdsOf(nodes, paths) ==
    IF paths = <<>> THEN <<>>
    ELSE <<NodeAt(nodes, Head(paths)).id>> \o IdsOf(nodes, Tail(paths))

Between(nodes, from, to) ==
    InOrder({q \in Paths(nodes) :
                Visible(nodes, q) /\ Before(from, q) /\ Before(q, to)})

\* The ids select() was called with by the last handler, in order.
RECURSIVE SelectCalls(_)
SelectCalls(steps) ==
    IF steps = <<>> THEN <<>>
    ELSE (IF Head(steps).op = "select" THEN <<Head(steps).name>> ELSE <<>>)
         \o SelectCalls(Tail(steps))

\* The last handler was selectBetween(start, end) with visible nodes, start
\* before end in document order.
RangeCase ==
    /\ call.op = "selectBetween"
    /\ Visible(call.before, call.start)
    /\ Visible(call.before, call.end)
    /\ Before(call.start, call.end)

----------------------------------------------------------------------------
(* C7, C8: boundingNodes.                                                  *)

\* The earliest and the latest of the nodes args in document order.
Earliest(args) == CHOOSE p \in Range(args) : \A q \in Range(args) \ {p} : Before(p, q)
Latest(args) == CHOOSE p \in Range(args) : \A q \in Range(args) \ {p} : Before(q, p)

\* C7 as stated: for two distinct nodes, in either argument order,
\* boundingNodes returns the earlier one in document order and then the
\* later one.
C7_TwoNodesInDocumentOrder ==
    (call.op = "boundingNodes" /\ Len(call.args) = 2
        /\ call.args[1] # call.args[2])
        => call.result = << <<Earliest(call.args)>>, <<Latest(call.args)>> >>

\* C8 as stated: for any number n >= 1 of nodes boundingNodes returns the
\* earliest and the latest of them (the same node twice for n = 1).
C8_MinAndMaxOfAny ==
    call.op = "boundingNodes"
        => call.result = << <<Earliest(call.args)>>, <<Latest(call.args)>> >>

----------------------------------------------------------------------------
(* C11: a load replaces the model.                                         *)

\* The ids the caller gave in the records, at any depth, as node ids.
RECURSIVE GivenIds(_)
GivenIds(records) ==
    UNION {(IF Falsy(records[k].id) THEN {}
            ELSE {ToString(records[k].id[1])})
           \cup GivenIds(records[k].children) : k \in 1..Len(records)}

\* The number of records, at any depth.
RECURSIVE CountRecords(_)
CountRecords(records) ==
    IF records = <<>> THEN 0
    ELSE 1 + CountRecords(Head(records).children)
           + CountRecords(Tail(records))

\* The ids of the nodes of a collection, at any depth.
ModelIds(nodes) == {NodeAt(nodes, p).id : p \in Paths(nodes)}

----------------------------------------------------------------------------
(* C17: the id of a parsed record.                                         *)

\* C17 as stated: the node of a root record without id has a generated id,
\* and the node of a root record with a number as id, 0 included, has the
\* string form of that number as id.
C17_IdKeptAsString ==
    (call.op \in {"new", "load"} /\ Completed /\ "data" \in DOMAIN call)
        => \A k \in 1..Len(call.data) :
              IF call.data[k].id = <<>>
              THEN model[k].id \in {cuid(n) : n \in 1..cuids}
              ELSE model[k].id = ToString(call.data[k].id[1])

----------------------------------------------------------------------------
(* C18: ids are unique in the tree.                                        *)

\* C18 as stated: no two nodes of the model share an id.
C18_IdsPairwiseDistinct ==
    \A p, q \in Paths(model) :
        NodeAt(model, p).id = NodeAt(model, q).id => p = q

----------------------------------------------------------------------------
(* C19: selection.require after a load.                                    *)

\* The root nodes that are not removed.
AvailableRoots(nodes) == {k \in 1..Len(nodes) : ~nodes[k].state.removed}

\* The parse of the records of the last call, before any selection.
Parsed(records) ==
    collectionToModel(records, config.allowLoadEvents, ParseStart(0)).nodes

\* C19 as stated: with selection.require, a load whose new model has an
\* available root node and no selected node leaves its first available root
\* node selected, so that some node is selected when model.loaded is
\* emitted; a load whose new model has a selected node selects nothing.
C19_RequireSelectsFirst ==
    (call.op \in {"new", "load"} /\ Completed /\ "data" \in DOMAIN call
        /\ config.require)
        => LET fresh == Parsed(call.data)
               roots == AvailableRoots(fresh)
           IN /\ (Selected(fresh) = {} /\ roots # {}) =>
                    /\ \E k \in roots :
                          /\ \A j \in roots : k <= j
                          /\ model[k].state.selected
                    /\ Selected(model) # {}
              /\ Selected(fresh) # {} => ~HasOp("select")

----------------------------------------------------------------------------
(* C12: search with an empty or blank query.                               *)

\* A query that is missing, empty or made of spaces only.
Blank(query) ==
    \/ query.kind = "none"
    \/ query.kind = "string" /\ \A k \in 1..Len(query.pattern) : query.pattern[k] = " "

\* The state a node has after clearSearch: shown and collapsed, every other
\* flag as before.
Cleared(state) == [state EXCEPT !.hidden = FALSE, !.collapsed = TRUE]

\* C12 as stated: a step search(query) with an empty or blank query leaves
\* every node not hidden and collapsed, with every other flag as it was.
C12_EmptyOrBlankClears ==
    [][(call'.op = "search" /\ Blank(call'.query))
        => /\ Paths(model') = Paths(model)
           /\ \A p \in Paths(model) :
                NodeAt(model', p).state = Cleared(NodeAt(model, p).state)]_vars

----------------------------------------------------------------------------
(* C13, C14: search with a query.                                          *)

\* Whether a node below the node at path is not removed and matches.
MatchBelow(nodes, path, query) ==
    \E q \in Range(Below(nodes, path)) :
        /\ ~NodeAt(nodes, q).state.removed
        /\ predicate(query, NodeAt(nodes, q))

\* The nodes that are not removed and match, in document order.
MatchesOf(nodes, query) ==
    InOrder({p \in Paths(nodes) : /\ ~NodeAt(nodes, p).state.removed
                                  /\ predicate(query, NodeAt(nodes, p))})

\* C13 as stated: a step search(query) with a query that is not empty
\* leaves every node that is not removed hidden iff it does not match,
\* leaves the hidden flag of the removed nodes as it was, and returns the
\* matching nodes that are not removed, in document order.
C13_HiddenIffNoMatch ==
    [][(call'.op = "search" /\ ~EmptyQuery(call'.query))
        => /\ \A p \in Paths(model) :
                NodeAt(model', p).state.hidden =
                    IF NodeAt(model, p).state.removed
                    THEN NodeAt(model, p).state.hidden
                    ELSE ~predicate(call'.query, NodeAt(model, p))
           /\ call'.result = MatchesOf(model, call'.query)]_vars

\* C13, amended: a step search(query) with a query that is not empty visits
\* every node once, in document order and whatever is collapsed; afterwards
\* every node with a matching descendant that is not removed is not hidden,
\* every other node that is not removed is hidden iff it does not match,
\* the hidden flag of every other removed node is as it was, and the result
\* holds the matching nodes that are not removed, each once, in document
\* order.
C13_HiddenUnlessAbove ==
    [][(call'.op = "search" /\ ~EmptyQuery(call'.query))
        => /\ Paths(model') = Paths(model)
           /\ \A p \in Paths(model) :
                NodeAt(model', p).state.hidden =
                    IF MatchBelow(model, p, call'.query) THEN FALSE
                    ELSE IF NodeAt(model, p).state.removed
                    THEN NodeAt(model, p).state.hidden
                    ELSE ~predicate(call'.query, NodeAt(model, p))
           /\ call'.result = MatchesOf(model, call'.query)]_vars

\* A search found a match below a node that does not match: the node is not
\* hidden, and a node without any match is.
C13_Witness ==
    /\ call.op = "search"
    /\ ~EmptyQuery(call.query)
    /\ \E p \in Range(call.result) :
          /\ Len(p) > 1
          /\ ~predicate(call.query, NodeAt(model, SubSeq(p, 1, Len(p) - 1)))
          /\ ~NodeAt(model, SubSeq(p, 1, Len(p) - 1)).state.hidden
    /\ \E p \in Paths(model) :
          /\ ~NodeAt(model, p).state.removed
          /\ NodeAt(model, p).state.hidden

\* The paths of the ancestors of the node at path.
Ancestors(path) == {SubSeq(path, 1, k) : k \in 1..(Len(path) - 1)}

\* C14: after search(query) with a query that is not empty every node of
\* the result is not hidden and each of its ancestors is expanded and not
\* hidden, whether the ancestor matches or not; every node that is not
\* removed and has no match in its subtree is hidden.
C14_MatchesReachable ==
    (call.op = "search" /\ ~EmptyQuery(call.query))
        => /\ \A p \in Range(call.result) :
                /\ ~NodeAt(model, p).state.hidden
                /\ \A a \in Ancestors(p) :
                      /\ ~NodeAt(model, a).state.collapsed
                      /\ ~NodeAt(model, a).state.hidden
           /\ \A p \in Paths(model) :
                (/\ ~NodeAt(model, p).state.removed
                 /\ ~predicate(call.query, NodeAt(model, p))
                 /\ ~MatchBelow(model, p, call.query))
                    => NodeAt(model, p).state.hidden

\* A search matched a node two levels down whose ancestors do not match,
\* and hid a node without a match in its subtree.
C14_Witness ==
    /\ call.op = "search"
    /\ ~EmptyQuery(call.query)
    /\ \E p \in Range(call.result) :
          /\ Len(p) = 3
          /\ \A a \in Ancestors(p) : ~predicate(call.query, NodeAt(model, a))
    /\ \E p \in Paths(model) :
          /\ ~NodeAt(model, p).state.removed
          /\ ~MatchBelow(model, p, call.query)
          /\ NodeAt(model, p).state.hidden

----------------------------------------------------------------------------
(* C15: restore with nodes.resetStateOnRestore.                            *)

\* C15: a step that restores a removed node while resetStateOnRestore is
\* set leaves every flag of the node at its default.
C15_RestoreResetsState ==
    [][(/\ call'.op = "node" /\ call'.method = "restore"
        /\ NodeAt(model, call'.path).state.removed
        /\ config.resetStateOnRestore)
        => NodeAt(model', call'.path).state = defaultState]_vars

\* A node was restored that had other flags off their defaults, and has
\* its default state.
C15_Witness ==
    /\ call.op = "node" /\ call.method = "restore"
    /\ config.resetStateOnRestore
    /\ call.path = <<2>>
    /\ Has("emit", "node.restored")
    /\ NodeAt(model, <<2>>).state = defaultState

----------------------------------------------------------------------------
(* C16: a state change to the value the flag has.                          *)

\* C16: a step that calls a state method on a node whose flag has the
\* value of the method already changes no node, emits nothing, calls no
\* method of a child, marks nothing dirty and asks for no rendering.
C16_SameValueIsNoOp ==
    [][(/\ call'.op = "node"
        /\ NodeAt(model, call'.path).state[Method(call'.method).prop]
              = Method(call'.method).value)
        => /\ model' = model
           /\ trace' = <<>>
           /\ lastSelected' = lastSelected]_vars

\* A method was called with deep propagation on a node with children whose
\* flag had the value already, and did nothing.
C16_Witness ==
    /\ call.op = "node"
    /\ call.deep
    /\ hasChildren(NodeAt(model, call.path))
    /\ NodeAt(model, call.path).state[Method(call.method).prop]
          = Method(call.method).value
    /\ trace = <<>>

----------------------------------------------------------------------------
(* C20: one render batch for each bulk operation.                          *)

\* The number of batches open after the first k steps.
RECURSIVE Open(_, _)
Open(steps, k) ==
    IF k = 0 THEN 0
    ELSE Open(steps, k - 1)
         + (IF steps[k].op = "batch" THEN 1
            ELSE IF steps[k].op = "end" THEN -1 ELSE 0)

\* The steps are one batch: batch() first, end() last, and the batch open
\* at every step between.
OneBatch(steps) ==
    /\ Len(steps) >= 2
    /\ steps[1].op = "batch"
    /\ steps[Len(steps)].op = "end"
    /\ \A k \in 1..(Len(steps) - 1) : Open(steps, k) > 0

BulkCall == call.op \in {"search", "selectBetween", "addNodes", "invoke"}

\* C20 as stated: the steps of search, selectBetween, addNodes and invoke
\* are one batch.
C20_OneBatch == BulkCall => OneBatch(trace)

\* C20, amended: the steps of selectBetween, addNodes, invoke and of search
\* with a query that is not empty are one batch; the steps of search with
\* an empty query are two batches, one after the other, the first showing
\* and the second collapsing the nodes.
C20_OneBatchOrTwo ==
    BulkCall =>
        IF call.op = "search" /\ EmptyQuery(call.query)
        THEN \E k \in 1..Len(trace) :
                /\ OneBatch(SubSeq(trace, 1, k))
                /\ OneBatch(SubSeq(trace, k + 1, Len(trace)))
                /\ \A j \in 1..Len(trace) :
                      trace[j].op = "emit" =>
                          trace[j].name = (IF j < k THEN "node.shown"
                                           ELSE "node.collapsed")
        ELSE OneBatch(trace)

\* A search with a query changed nodes and emitted events inside its batch.
C20_Witness ==
    /\ call.op = "search"
    /\ ~EmptyQuery(call.query)
    /\ OneBatch(trace)
    /\ Has("emit", "node.expanded")
    /\ HasOp("markDirty")
    /\ Len(trace) > 4

----------------------------------------------------------------------------
(* C21: the model is swapped in one step.                                  *)

\* The model in the tree when step k of a completion is taken: the model of
\* before up to removeAll, the new model from its assignment on, and
\* otherwise what lies between the two.
ModelAt(k) ==
    IF HasOp("removeAll") /\ k < PosOp("removeAll") THEN "previous"
    ELSE IF ~HasOp("removeAll") /\ (~Completed \/ k < PosOp("setModel"))
    THEN "previous"
    ELSE IF Completed /\ k > PosOp("setModel") THEN "new"
    ELSE "between"

\* C21 as stated: when a load completes on a tree that holds nodes, every
\* event is emitted and every applyChanges is called while the tree holds
\* the whole model of before or the whole new model.
C21_SwapIsAtomic ==
    (HasOp("complete") /\ HasOp("removeAll"))
        => \A k \in 1..Len(trace) :
              trace[k].op \in {"emit", "applyChanges"}
                  => ModelAt(k) \in {"previous", "new"}

----------------------------------------------------------------------------
(* C22: indeterminate is derived from the selection of the children.       *)

\* Whether some but not all of the children of a node are selected, a child
\* that is indeterminate counting as selected in part.
PartlySelected(aNode) ==
    /\ hasChildren(aNode)
    /\ \E k \in 1..Len(aNode.children) :
          \/ aNode.children[k].state.selected
          \/ aNode.children[k].state.indeterminate
    /\ \E k \in 1..Len(aNode.children) : ~aNode.children[k].state.selected

\* C22 as stated: in every state every node is indeterminate iff it has
\* children of which some but not all are selected.
C22_IndeterminateIffPartial ==
    \A p \in Paths(model) :
        NodeAt(model, p).state.indeterminate <=> PartlySelected(NodeAt(model, p))

----------------------------------------------------------------------------
(* C26: the links between a node, its parent and its collection.           *)

\* Whether every node of the collection has parent as its parent, and every
\* node with children is the context of their collection and the parent of
\* each of them, at every depth.
RECURSIVE Linked(_, _)
Linked(nodes, parent) ==
    \A k \in 1..Len(nodes) :
        /\ nodes[k].parent = parent
        /\ hasChildren(nodes[k]) =>
              /\ nodes[k].context = nodes[k].id
              /\ Linked(nodes[k].children, nodes[k].id)

\* Whether the nodes stand in the order of the records they were parsed
\* from, at every depth: as many nodes as records, each with the id of the
\* record at its position when the record gives one.
RECURSIVE InRecordOrder(_, _)
InRecordOrder(nodes, records) ==
    /\ Len(nodes) = Len(records)
    /\ \A k \in 1..Len(nodes) :
          /\ ~Falsy(records[k].id) => nodes[k].id = ToString(records[k].id[1])
          /\ InRecordOrder(nodes[k].children, records[k].children)

\* C26: in every state the root nodes have no parent and the root
\* collection has no context, every child has the node that holds it as its
\* parent and the collection of the children has that node as its context;
\* and the model a load has just built holds the nodes in the order of the
\* records.
C26_LinksConsistent ==
    /\ Linked(model, "none")
    /\ modelContext = "none"
    /\ (call.op \in {"new", "load"} /\ Completed /\ "data" \in DOMAIN call)
          => InRecordOrder(model, call.data)

\* A load on a tree that held nodes built a model of two roots of which the
\* first has a child.
C26_Witness ==
    /\ call.op = "load"
    /\ Completed
    /\ Has("removeAll", "")
    /\ Len(model) = 2
    /\ hasChildren(model[1])
    /\ model[1].children[1].parent = model[1].id
    /\ model[1].context = model[1].id
    /\ model[2].parent = "none"

----------------------------------------------------------------------------
(* C23: loadChildren pending on two nodes.                                 *)

\* Whether path p is path q or leads to it.
Within(p, q) == Len(p) <= Len(q) /\ SubSeq(q, 1, Len(p)) = p

\* A node without its children.
Own(aNode) == [aNode EXCEPT !.children = <<>>]

\* The node of call k of loadChildren holds what its own loader gave: it is
\* not loading and has one child per record, in the order of the records,
\* each with the node as parent.
HoldsOwn(nodes, k) ==
    LET aNode == NodeAt(nodes, childLoads[k].path)
    IN /\ ~aNode.state.loading
       /\ aNode.context = aNode.id
       /\ Len(aNode.children) = Len(childLoads[k].data)
       /\ \A j \in 1..Len(aNode.children) :
             /\ aNode.children[j].parent = aNode.id
             /\ ~Falsy(childLoads[k].data[j].id) =>
                   aNode.children[j].id = ToString(childLoads[k].data[j].id[1])

\* C23: a step in which the loader of one node gives its records changes
\* that node only: every node outside its subtree keeps its state, its
\* links and its children, and a node whose loader is still pending stays
\* loading and without children; the node itself is no longer loading and
\* has the nodes parsed from the records as children, each with the node as
\* parent. In every state the node of every loader that has given records
\* holds what its own loader gave, whichever finished first.
C23_CompletionsIndependent ==
    [][/\ (call'.op = "children.result" /\ Has("emit", "children.loaded")') =>
            /\ \A q \in Paths(model) :
                  IF Within(q, call'.path) /\ q # call'.path
                  THEN Own(NodeAt(model', q)) = Own(NodeAt(model, q))
                  ELSE q # call'.path => NodeAt(model', q) = NodeAt(model, q)
            /\ \A q \in Paths(model') :
                  q \in Paths(model) \/ (Within(call'.path, q) /\ q # call'.path)
            /\ \A k \in 1..Len(childLoads') :
                  childLoads'[k].status = "pending" =>
                     /\ NodeAt(model', childLoads'[k].path).state.loading
                     /\ ~hasChildren(NodeAt(model', childLoads'[k].path))
            /\ Own(NodeAt(model', call'.path)) =
                  [Own(NodeAt(model, call'.path)) EXCEPT
                      !.state.loading = FALSE,
                      !.context = NodeAt(model, call'.path).id]
            /\ NodeAt(model', call'.path).children =
                  collectionToModel(call'.data, config.allowLoadEvents,
                      ParseUnder(NodeAt(model, call'.path).id, cuids)).nodes
       /\ \A k \in 1..Len(childLoads') :
             childLoads'[k].status = "loaded" => HoldsOwn(model, k)']_vars

\* loadChildren was pending on two nodes at once; the loader called last
\* gave its records first, and both nodes hold their own children.
C23_Witness ==
    /\ Len(childLoads) = 2
    /\ childLoads[1].status = "loaded" /\ childLoads[2].status = "loaded"
    /\ childLoads[1].path # childLoads[2].path
    /\ childLoads[1].finished = 2 /\ childLoads[2].finished = 1
    /\ childLoads[1].data # childLoads[2].data
    /\ Len(NodeAt(model, childLoads[1].path).children) = 2
    /\ Len(NodeAt(model, childLoads[2].path).children) = 1
    /\ call.op = "children.result"

----------------------------------------------------------------------------
(* C24: the order of the steps of a state change.                          *)

\* The steps (op, name) stand at position k of the trace.
At(k, op, name) ==
    k \in 1..Len(trace) /\ trace[k].op = op /\ trace[k].name = name

\* C24: when a state method changes the flag of its node, the steps are, in
\* this order: the reset of the flags (only when a node is restored with
\* resetStateOnRestore), the flag set, node.<verb> emitted, the method
\* called on every descendant in one batch (only with deep propagation on a
\* node with children), the node marked dirty, applyChanges. The event of
\* the node follows the set of its flag and comes before every event of a
\* descendant, and the flag has the new value afterwards.
C24_StepsInOrder ==
    (call.op = "node" /\ trace # <<>>) =>
        LET id     == NodeAt(model, call.path).id
            m      == Method(call.method)
            resets == config.resetStateOnRestore /\ m.verb = "restored"
            first  == IF resets THEN 2 ELSE 1
            last   == Len(trace)
            inner  == SubSeq(trace, first + 2, last - 2)
        IN /\ resets <=> At(1, "resetState", id)
           /\ At(first, "state", id)
           /\ At(first + 1, "emit", "node." \o m.verb)
           /\ At(last - 1, "markDirty", id)
           /\ At(last, "applyChanges", "")
           /\ first + 1 < last - 1
           /\ inner # <<>> =>
                 /\ call.deep /\ hasChildren(NodeAt(model, call.path))
                 /\ OneBatch(inner)
           /\ \A k \in 1..last :
                 trace[k].op \in {"emit", "state", "resetState"} /\ k > first + 1
                     => (first + 2 < k /\ k < last - 2)
           /\ NodeAt(model, call.path).state[m.prop] = m.value

\* A removed node with children was restored with deep propagation: its
\* flags were reset, and a descendant that was removed was restored in the
\* batch between the event of the node and its mark.
C24_Witness ==
    /\ call.op = "node" /\ call.method = "restore" /\ call.deep
    /\ config.resetStateOnRestore
    /\ HasOp("resetState")
    /\ Count("emit", "node.restored") >= 2
    /\ HasOp("batch")
    /\ Len(trace) >= 10

----------------------------------------------------------------------------
(* C25: the events of flags that are set in the records.                   *)

\* The number of nodes of a collection, at any depth, with flag name set.
CountSet(nodes, name) ==
    Cardinality({p \in Paths(nodes) : NodeAt(nodes, p).state[name]})

\* C25 as stated: a load with a list allowLoadEvents that is not empty
\* emits node.<name> once for every parsed node and every name of the list
\* whose flag is set on the node in the records, after the new model is in
\* place in the tree, and no event for a name that is not in the list.
C25_LoadEventsAfterModel ==
    (/\ call.op \in {"new", "load"} /\ Completed /\ "data" \in DOMAIN call
     /\ config.allowLoadEvents # <<>>)
        => /\ \A name \in Range(config.allowLoadEvents) :
                Count("emit", "node." \o name)
                    = CountSet(Parsed(call.data), name)
           /\ \A k \in 1..Len(trace) :
                trace[k].op = "emit" =>
                    \/ trace[k].name \in {"data.loaded", "model.loaded"}
                    \/ /\ \E name \in Range(config.allowLoadEvents) :
                             trace[k].name = "node." \o name
                       /\ k > PosOp("setModel")

----------------------------------------------------------------------------
(* C27: a call of load completes once.                                     *)

\* C27 as stated: a step in which complete runs for a call of load, through
\* its thenable or through a callback of its loader function, is the first
\* completion of that call: the call has not completed before, so its
\* promise is not resolved yet, and the model is replaced and data.loaded
\* and model.loaded are emitted at most once for the call.
C27_CompletesOnce ==
    [][(/\ call'.op \in {"thenable.resolve", "callback.complete"}
        /\ HasOp("complete")')
        => loads[call'.load].promise # "resolved"]_vars

----------------------------------------------------------------------------
(* C28: every batch is ended.                                              *)

\* The number of steps op of the trace.
CountOp(op) == Cardinality({k \in 1..Len(trace) : trace[k].op = op})

\* C28 as stated: an operation has called dom.end() as often as it has
\* called dom.batch() when it returns or throws, so that after any sequence
\* of operations as many batches have been ended as were begun.
C28_BatchesBalanced == CountOp("end") = CountOp("batch")

====
